---- MODULE Spec2Model ----
(***************************************************************************)
(* Model of src/models/llm_service.py: GeminiVisionService.                *)
(*   generate_response          (ModelClient.generate in the spec)         *)
(*   generate_fashion_response  (FashionResponder.compose in the spec)     *)
(* Python str values are TLA+ strings; len, +, slicing and `in` are Len,   *)
(* \o, SubSeq and Contains.  Floats (similarity, threshold, temperature,   *)
(* top_p) are kept in hundredths so that >= is integer comparison.         *)
(***************************************************************************)
EXTENDS Integers, Sequences, FiniteSets, TLC

(* ------------------------------ bounds --------------------------------- *)
\* largest number of rows of all_items handed to one call
MaxItems == 2

(* ------------------------- program constants --------------------------- *)
\* llm_service.py:144  if len(response) < 100
IncompleteLen == 100
\* llm_service.py:80   if len(content_text) >= 7900
TruncationLen == 7900
\* llm_service.py:90   threshold=0.8 (hundredths)
DefaultThreshold == 80

(* --------------------------- string helpers ---------------------------- *)
\* Python: t in s
Contains(s, t) ==
    \E i \in 1..(Len(s) - Len(t) + 1) : SubSeq(s, i, i + Len(t) - 1) = t

\* Python: s.startswith(t)
StartsWith(s, t) == Len(s) >= Len(t) /\ SubSeq(s, 1, Len(t)) = t

RECURSIVE Repeat(_, _)
Repeat(s, k) == IF k <= 0 THEN "" ELSE s \o Repeat(s, k - 1)

\* Python: "\n".join(lines)
RECURSIVE JoinLines(_)
JoinLines(lines) ==
    IF Len(lines) = 0 THEN ""
    ELSE IF Len(lines) = 1 THEN lines[1]
    ELSE lines[1] \o "\n" \o JoinLines(Tail(lines))

(* ------------------- generate_fashion_response: text -------------------- *)
ITEM_DETAILS == "ITEM DETAILS:"
SIMILAR_ITEMS == "SIMILAR ITEMS:"

\* line 107: f"{row['Item Name']} (${row['Price']}): {row['Link']}"
ItemStr(row) == row.name \o " ($" \o row.price \o "): " \o row.link

\* lines 105-111: "\n".join([f"- {item}" for item in items_list])
ItemsDescription(all_items) ==
    JoinLines([i \in 1..Len(all_items) |-> "- " \o ItemStr(all_items[i])])

PromptIntro ==
    "You're conducting a professional retail catalog analysis. "
    \o "This image shows standard clothing items available in department stores. "
    \o "Focus exclusively on professional fashion analysis for a clothing retailer. "

PromptOutro ==
    "This is for a professional retail catalog. Use formal, clinical language."

\* lines 115-125
ExactPrompt(items_description) ==
    PromptIntro
    \o "ITEM DETAILS (always include this section in your response):\n"
    \o items_description \o "\n\n"
    \o "Please:\n"
    \o "1. Identify and describe the clothing items objectively (colors, patterns, materials)\n"
    \o "2. Categorize the overall style (business, casual, etc.)\n"
    \o "3. Include the ITEM DETAILS section at the end\n\n"
    \o PromptOutro

\* lines 128-138
SimilarPrompt(items_description) ==
    PromptIntro
    \o "SIMILAR ITEMS (always include this section in your response):\n"
    \o items_description \o "\n\n"
    \o "Please:\n"
    \o "1. Note these are similar but not exact items\n"
    \o "2. Identify clothing elements objectively (colors, patterns, materials)\n"
    \o "3. Include the SIMILAR ITEMS section at the end\n\n"
    \o PromptOutro

\* the comparison with the equality case dropped
IsExactMatchStrict(similarity_score, threshold) == similarity_score > threshold

\* line 113: if similarity_score >= threshold
IsExactMatch(similarity_score, threshold) == similarity_score >= threshold

\* lines 113-138
AssistantPrompt(items_description, similarity_score, threshold) ==
    IF IsExactMatch(similarity_score, threshold)
    THEN ExactPrompt(items_description)
    ELSE SimilarPrompt(items_description)

\* lines 147 and 154
SectionHeader(similarity_score, threshold) ==
    IF similarity_score >= threshold THEN ITEM_DETAILS ELSE SIMILAR_ITEMS

\* line 148
BasicResponse(section_header, items_description) ==
    "# Fashion Analysis\n\n"
    \o "This outfit features a collection of carefully coordinated pieces.\n\n"
    \o section_header \o "\n" \o items_description

\* the length test one character short
IsIncompleteOffByOne(response) == Len(response) < IncompleteLen - 1

\* the length test taking the limit itself as incomplete
IsIncompleteInclusive(response) == Len(response) <= IncompleteLen

\* line 144
IsIncomplete(response) == Len(response) < IncompleteLen

\* the membership test with the first header forgotten
SectionMissingSimilarOnly(response) == ~Contains(response, SIMILAR_ITEMS)

\* the membership test on the headings as the prompt writes them, no colon
SectionMissingNoColon(response) ==
    ~Contains(response, "ITEM DETAILS") /\ ~Contains(response, "SIMILAR ITEMS")

\* line 151
SectionMissing(response) ==
    ~Contains(response, ITEM_DETAILS) /\ ~Contains(response, SIMILAR_ITEMS)

\* lines 143-157
RepairedResponse(response, items_description, similarity_score, threshold) ==
    IF IsIncomplete(response)
    THEN BasicResponse(SectionHeader(similarity_score, threshold), items_description)
    ELSE IF SectionMissing(response)
    THEN response \o "\n\n" \o SectionHeader(similarity_score, threshold)
                  \o "\n" \o items_description
    ELSE response

(* --------------------- generate_response: text ------------------------- *)
ErrorMarker == "Error generating response: "

\* line 87: f"Error generating response: {e}"
ErrorResponse(cause) == ErrorMarker \o cause

\* a response at the truncation length cut instead of only reported
ReturnedTextCut(content_text) ==
    IF Len(content_text) >= TruncationLen
    THEN SubSeq(content_text, 1, TruncationLen - 1)
    ELSE content_text

\* lines 80-83: the warning is logged, content_text is returned as it is
ReturnedText(content_text) == content_text

\* line 80
MayBeTruncated(content_text) == Len(content_text) >= TruncationLen

(* ---------------------------- environment ------------------------------ *)
\* rows of the catalog table (Item Name, Price, Link columns)
Catalog ==
    << [name |-> "Blue Oxford Shirt", price |-> "45",    link |-> "http://x/1"],
       [name |-> "Grey Wool Trousers", price |-> "89.50", link |-> "http://x/2"],
       [name |-> "Brown Leather Belt", price |-> "30",    link |-> "http://x/3"],
       [name |-> "Navy Blazer",        price |-> "150",   link |-> "http://x/4"] >>

\* the all_items table of one request: the first n rows
Rows(n) == SubSeq(Catalog, 1, IF n <= Len(Catalog) THEN n ELSE Len(Catalog))

\* text the provider can write before the section, cut to n characters
ProseText ==
    "The ensemble consists of a light blue cotton shirt with a button-down collar, "
    \o "paired with tailored grey trousers in a fine wool weave. "
    \o "The overall style is business casual. "

Prose(n) == SubSeq(Repeat(ProseText, (n \div Len(ProseText)) + 1), 1, n)

\* what the provider can write after the prose
TailText(kind, items_description) ==
    CASE kind = "none"           -> ""
      [] kind = "details_block"  -> "\n\nITEM DETAILS:\n" \o items_description
      [] kind = "similar_block"  -> "\n\nSIMILAR ITEMS:\n" \o items_description
      [] kind = "details_only"   -> "\n\nITEM DETAILS: see the catalog."
      [] kind = "similar_only"   -> "\n\nSIMILAR ITEMS: none."
      [] kind = "prompt_heading" ->
            "\n\nITEM DETAILS (always include this section in your response):\n"
            \o items_description
      [] OTHER                   -> "ITEM DETAILS:"

\* messages of the exceptions the steps of generate_response can raise
BadPaddingCause == "Incorrect padding"
NotAnImageCause == "cannot identify image file <_io.BytesIO object at 0x7f3a5c1d2e50>"
BlockedCause ==
    "Invalid operation: The response.text quick accessor requires the response "
    \o "to contain a valid Part, but none were returned."

AllImages == {"valid", "bad_padding", "not_image"}
AllCounts == 0..MaxItems
AllScores == {50, 80, 90}
AllThresholds == {DefaultThreshold, 90}
AllPrompts == {"", "Describe the garment."}
AllLens == {0, 35, IncompleteLen - 1, IncompleteLen, 150, TruncationLen}
AllTails == {"none", "details_block", "similar_block", "details_only",
             "similar_only", "prompt_heading", "bare_header"}
AllCauses == {"timeout", "429 Resource has been exhausted (e.g. check quota).",
              BlockedCause}

Callers == {1, 2}

NoArgs == [image |-> "none", all_items |-> << >>, similarity_score |-> 0,
           threshold |-> 0]

(* ------------------------------- state --------------------------------- *)
VARIABLES
    generation_config,   \* self.generation_config, set by __init__
    pc,                  \* position of each caller
    op,                  \* public method the caller is in
    args,                \* arguments of the call
    items_description,   \* local of generate_fashion_response
    assistant_prompt,    \* prompt handed to generate_response
    content_text,        \* response.text as the provider sent it
    failed,              \* generate_response took its except branch
    cause,               \* str(e) of the exception caught
    warned,              \* the truncation warning was logged
    response,            \* value generate_response returned
    result,              \* value the public method returned
    ngen                 \* generate_response invocations in this call

vars == << generation_config, pc, op, args, items_description, assistant_prompt,
           content_text, failed, cause, warned, response, result, ngen >>

locals == << items_description, assistant_prompt >>
genvars == << content_text, failed, cause, warned, response >>

\* lines 20-48: __init__ with the defaults of its signature
InitialConfig ==
    [temperature |-> 20, top_p |-> 60, max_output_tokens |-> 2000,
     model_name |-> "gemini-2.0-flash-exp"]

Init ==
    /\ generation_config = InitialConfig
    /\ pc = [c \in Callers |-> "idle"]
    /\ op = [c \in Callers |-> "none"]
    /\ args = [c \in Callers |-> NoArgs]
    /\ items_description = [c \in Callers |-> ""]
    /\ assistant_prompt = [c \in Callers |-> ""]
    /\ content_text = [c \in Callers |-> ""]
    /\ failed = [c \in Callers |-> FALSE]
    /\ cause = [c \in Callers |-> ""]
    /\ warned = [c \in Callers |-> FALSE]
    /\ response = [c \in Callers |-> ""]
    /\ result = [c \in Callers |-> ""]
    /\ ngen = [c \in Callers |-> 0]

\* a call that writes a sampling parameter of the shared configuration
ConfigOverridden(config) == [config EXCEPT !.temperature = 0]

\* line 72: generate_content reads self.model and its generation_config
ConfigAfterGenerate(config) == config

(* ------------------------------ actions -------------------------------- *)
\* lines 89-90: a caller enters generate_fashion_response
CallCompose(c, Images, Counts, Scores, Thresholds) ==
    /\ pc[c] = "idle"
    /\ \E img \in Images, n \in Counts, s \in Scores, t \in Thresholds :
          args' = [args EXCEPT ![c] = [image |-> img, all_items |-> Rows(n),
                                       similarity_score |-> s, threshold |-> t]]
    /\ op' = [op EXCEPT ![c] = "compose"]
    /\ pc' = [pc EXCEPT ![c] = "compose"]
    /\ UNCHANGED << generation_config, locals, genvars, result, ngen >>

\* line 50: a caller enters generate_response directly
CallGenerate(c, Images, Prompts) ==
    /\ pc[c] = "idle"
    /\ \E img \in Images :
          args' = [args EXCEPT ![c] = [NoArgs EXCEPT !.image = img]]
    /\ \E p \in Prompts :
          assistant_prompt' = [assistant_prompt EXCEPT ![c] = p]
    /\ op' = [op EXCEPT ![c] = "generate"]
    /\ pc' = [pc EXCEPT ![c] = "generate"]
    /\ ngen' = [ngen EXCEPT ![c] = @ + 1]
    /\ UNCHANGED << generation_config, items_description, genvars, result >>

\* lines 104-138: render the items and select the prompt
BuildPrompt(c) ==
    /\ pc[c] = "compose"
    /\ items_description' =
          [items_description EXCEPT ![c] = ItemsDescription(args[c].all_items)]
    /\ assistant_prompt' =
          [assistant_prompt EXCEPT ![c] =
              AssistantPrompt(ItemsDescription(args[c].all_items),
                              args[c].similarity_score, args[c].threshold)]
    /\ pc' = [pc EXCEPT ![c] = "call"]
    /\ UNCHANGED << generation_config, op, args, genvars, result, ngen >>

\* line 141: response = self.generate_response(user_image_base64, assistant_prompt)
CallModel(c) ==
    /\ pc[c] = "call"
    /\ ngen' = [ngen EXCEPT ![c] = @ + 1]
    /\ pc' = [pc EXCEPT ![c] = "generate"]
    /\ UNCHANGED << generation_config, op, args, locals, genvars, result >>

\* where generate_response returns to
AfterGenerate(c) == IF op[c] = "compose" THEN "validate" ELSE "done"

\* the return statement of generate_response (lines 83 and 87)
ReturnFromGenerate(c, value) ==
    /\ response' = [response EXCEPT ![c] = value]
    /\ pc' = [pc EXCEPT ![c] = AfterGenerate(c)]
    /\ result' = IF op[c] = "compose" THEN result
                 ELSE [result EXCEPT ![c] = value]

\* lines 61-66 and 85-87: decode the base64 text and open the image
DecodeImage(c) ==
    /\ pc[c] = "generate"
    /\ IF args[c].image = "valid"
       THEN /\ pc' = [pc EXCEPT ![c] = "remote"]
            /\ UNCHANGED << genvars, result >>
       ELSE LET e == IF args[c].image = "bad_padding"
                     THEN BadPaddingCause ELSE NotAnImageCause
            IN  /\ failed' = [failed EXCEPT ![c] = TRUE]
                /\ cause' = [cause EXCEPT ![c] = e]
                /\ ReturnFromGenerate(c, ErrorResponse(e))
                /\ UNCHANGED << content_text, warned >>
    /\ UNCHANGED << generation_config, op, args, locals, ngen >>

\* lines 72-83: the provider answers with a text
GenerateContentOk(c, Lens, Tails) ==
    /\ pc[c] = "remote"
    /\ \E n \in Lens, k \in Tails :
          LET text == Prose(n) \o TailText(k, items_description[c])
          IN  /\ content_text' = [content_text EXCEPT ![c] = text]
              /\ warned' = [warned EXCEPT ![c] = MayBeTruncated(text)]
              /\ ReturnFromGenerate(c, ReturnedText(text))
    /\ generation_config' = ConfigAfterGenerate(generation_config)
    /\ UNCHANGED << op, args, locals, failed, cause, ngen >>

\* lines 72-75 and 85-87: generate_content or response.text raises
GenerateContentFail(c, Causes) ==
    /\ pc[c] = "remote"
    /\ \E e \in Causes :
          /\ failed' = [failed EXCEPT ![c] = TRUE]
          /\ cause' = [cause EXCEPT ![c] = e]
          /\ ReturnFromGenerate(c, ErrorResponse(e))
    /\ generation_config' = ConfigAfterGenerate(generation_config)
    /\ UNCHANGED << op, args, locals, content_text, warned, ngen >>

\* a repair that asks the model again when the first answer was too short
RepairRetrying(c) ==
    /\ pc[c] = "validate"
    /\ IF Len(response[c]) < IncompleteLen /\ ngen[c] < 2
       THEN /\ pc' = [pc EXCEPT ![c] = "call"]
            /\ failed' = [failed EXCEPT ![c] = FALSE]
            /\ UNCHANGED << result, content_text, cause, warned, response >>
       ELSE /\ result' = [result EXCEPT ![c] =
                  RepairedResponse(response[c], items_description[c],
                                   args[c].similarity_score, args[c].threshold)]
            /\ pc' = [pc EXCEPT ![c] = "done"]
            /\ UNCHANGED genvars
    /\ UNCHANGED << generation_config, op, args, locals, ngen >>

\* lines 143-157: validate and repair the response, then return it
Repair(c) ==
    /\ pc[c] = "validate"
    /\ result' = [result EXCEPT ![c] =
          RepairedResponse(response[c], items_description[c],
                           args[c].similarity_score, args[c].threshold)]
    /\ pc' = [pc EXCEPT ![c] = "done"]
    /\ UNCHANGED << generation_config, op, args, locals, genvars, ngen >>

\* the caller has taken the returned string; the frame is gone
Finish(c) ==
    /\ pc[c] = "done"
    /\ pc' = [pc EXCEPT ![c] = "idle"]
    /\ op' = [op EXCEPT ![c] = "none"]
    /\ args' = [args EXCEPT ![c] = NoArgs]
    /\ items_description' = [items_description EXCEPT ![c] = ""]
    /\ assistant_prompt' = [assistant_prompt EXCEPT ![c] = ""]
    /\ content_text' = [content_text EXCEPT ![c] = ""]
    /\ failed' = [failed EXCEPT ![c] = FALSE]
    /\ cause' = [cause EXCEPT ![c] = ""]
    /\ warned' = [warned EXCEPT ![c] = FALSE]
    /\ response' = [response EXCEPT ![c] = ""]
    /\ result' = [result EXCEPT ![c] = ""]
    /\ ngen' = [ngen EXCEPT ![c] = 0]
    /\ UNCHANGED generation_config

\* the steps that follow a call without a further decision of the caller
Progress(c) ==
    \/ BuildPrompt(c)
    \/ CallModel(c)
    \/ DecodeImage(c)
    \/ GenerateContentOk(c, AllLens, AllTails)
    \/ GenerateContentFail(c, AllCauses)
    \/ Repair(c)

(* ------------------- one caller, every input -------------------------- *)
Next ==
    \/ CallCompose(1, AllImages, AllCounts, AllScores, AllThresholds)
    \/ CallGenerate(1, AllImages, AllPrompts)
    \/ Progress(1)
    \/ Finish(1)

Spec == Init /\ [][Next]_vars

\* the method is synchronous code: every step after the call is taken
FairSpec == Spec /\ WF_vars(Progress(1))

(* ------------------- two callers, one instance ------------------------- *)
FewImages == {"valid", "bad_padding"}
FewCounts == {0, MaxItems}
FewScores == {50, 80}
FewThresholds == {DefaultThreshold}
FewLens == {35, 150}
FewTails == {"none", "similar_only"}
FewCauses == {"timeout"}

ConcNext ==
    \E c \in Callers :
        \/ CallCompose(c, FewImages, FewCounts, FewScores, FewThresholds)
        \/ CallGenerate(c, FewImages, {""})
        \/ BuildPrompt(c)
        \/ CallModel(c)
        \/ DecodeImage(c)
        \/ GenerateContentOk(c, FewLens, FewTails)
        \/ GenerateContentFail(c, FewCauses)
        \/ Repair(c)
        \/ Finish(c)

ConcSpec == Init /\ [][ConcNext]_vars

TypeOK ==
    /\ pc \in [Callers -> {"idle", "compose", "call", "generate", "remote",
                           "validate", "done"}]
    /\ op \in [Callers -> {"none", "compose", "generate"}]
    /\ \A c \in Callers : ngen[c] \in 0..1

(* ------------------------------ claims --------------------------------- *)
Returned(c) == pc[c] = "done" /\ op[c] = "compose"

CorrectHeader(c) ==
    IF args[c].similarity_score >= args[c].threshold
    THEN "ITEM DETAILS:" ELSE "SIMILAR ITEMS:"

OtherHeader(c) ==
    IF args[c].similarity_score >= args[c].threshold
    THEN "SIMILAR ITEMS:" ELSE "ITEM DETAILS:"

RenderedBlock(c) == ItemsDescription(args[c].all_items)

Template(c) ==
    "# Fashion Analysis\n\nThis outfit features a collection of carefully coordinated pieces.\n\n"
    \o CorrectHeader(c) \o "\n" \o RenderedBlock(c)

\* C1: every string generate_fashion_response returns contains the rendered
\* item block right under the header of the request (ITEM DETAILS: when
\* similarity_score >= threshold, SIMILAR ITEMS: otherwise) and does not
\* contain the other header.
C1_BlockUnderCorrectHeader ==
    \A c \in Callers :
        Returned(c) =>
            /\ Contains(result[c], CorrectHeader(c) \o "\n" \o RenderedBlock(c))
            /\ ~Contains(result[c], OtherHeader(c))

\* C2: when generate_response returned fewer than 100 characters, the string
\* returned is the synthesized template, whatever the short string was.
C2_ShortResponseDiscarded ==
    \A c \in Callers :
        (Returned(c) /\ Len(response[c]) < 100) => result[c] = Template(c)

\* a short response that itself carries a header, and the 99 character one
C2_Witness ==
    /\ Returned(1) /\ Len(response[1]) = 99
    /\ result[1] = Template(1) /\ args[1].all_items # << >>

\* C3: when generate_response returned at least 100 characters holding neither
\* header, the string returned is raw, a blank line, the header of the
\* request, a newline and the rendered block.
C3_MissingSectionAppended ==
    \A c \in Callers :
        (/\ Returned(c)
         /\ Len(response[c]) >= 100
         /\ ~Contains(response[c], "ITEM DETAILS:")
         /\ ~Contains(response[c], "SIMILAR ITEMS:"))
        => result[c] = response[c] \o "\n\n" \o CorrectHeader(c) \o "\n"
                                   \o RenderedBlock(c)

C3_Witness ==
    /\ Returned(1) /\ Len(response[1]) = 100 /\ ~failed[1]
    /\ ~Contains(response[1], "ITEM DETAILS:")
    /\ ~Contains(response[1], "SIMILAR ITEMS:")
    /\ Len(result[1]) > Len(response[1]) + 16

\* C4: when generate_response returned at least 100 characters that hold the
\* header of the request, that string is returned unchanged.
C4_CompleteUnchanged ==
    \A c \in Callers :
        (/\ Returned(c)
         /\ Len(response[c]) >= 100
         /\ Contains(response[c], CorrectHeader(c)))
        => result[c] = response[c]

C4_Witness ==
    /\ Returned(1) /\ Len(response[1]) >= 100
    /\ Contains(response[1], CorrectHeader(1))
    /\ args[1].similarity_score = args[1].threshold
    /\ result[1] = response[1]

\* C5: generate_response always comes back with a string: the fixed marker
\* followed by the cause when a step failed, the provider's text as it is
\* otherwise, also when the truncation warning was logged.
C5_GenerateDegradesToString ==
    \A c \in Callers :
        pc[c] \in {"validate", "done"} =>
            /\ ngen[c] = 1
            /\ failed[c] => /\ StartsWith(response[c], "Error generating response: ")
                            /\ response[c] = "Error generating response: " \o cause[c]
            /\ ~failed[c] => response[c] = content_text[c]
            /\ warned[c] <=> (~failed[c] /\ Len(content_text[c]) >= 7900)

C5_Witness ==
    /\ pc[1] = "done" /\ op[1] = "generate"
    /\ warned[1] /\ Len(result[1]) >= 7900 /\ result[1] = content_text[1]

\* C6: whenever generate_response failed inside generate_fashion_response, the
\* string returned is the synthesized template and the error text is not
\* part of it.
C6_ErrorCaughtByStateA ==
    \A c \in Callers :
        (Returned(c) /\ failed[c]) =>
            /\ result[c] = Template(c)
            /\ ~Contains(result[c], cause[c])
            /\ ~Contains(result[c], "Error generating response: ")

\* what belongs to one call
CallState(c) ==
    << pc[c], op[c], args[c], items_description[c], assistant_prompt[c],
       content_text[c], failed[c], cause[c], warned[c], response[c], result[c],
       ngen[c] >>

\* what a finished call returns, from its own arguments and its own reply
OwnOutcome(c) ==
    LET raw == IF failed[c] THEN "Error generating response: " \o cause[c]
               ELSE content_text[c]
    IN  IF op[c] = "generate" THEN raw
        ELSE IF Len(raw) < 100 THEN Template(c)
        ELSE IF ~Contains(raw, "ITEM DETAILS:") /\ ~Contains(raw, "SIMILAR ITEMS:")
        THEN raw \o "\n\n" \o CorrectHeader(c) \o "\n" \o RenderedBlock(c)
        ELSE raw

\* C7: with two callers interleaved on one instance, no step changes the
\* generation configuration set at construction, a step of one caller leaves
\* everything of the other caller as it was, and a finished call's result is
\* determined by its own arguments and its own reply.
C7_CallsIndependent ==
    /\ [][/\ generation_config' = generation_config
          /\ \A c \in Callers :
                pc'[c] = pc[c] => CallState(c)' = CallState(c)]_vars
    /\ [](\A c \in Callers :
            /\ generation_config = InitialConfig
            /\ pc[c] = "done" => result[c] = OwnOutcome(c))

C7_Witness ==
    /\ pc[1] = "done" /\ pc[2] = "validate"
    /\ op[1] = "compose" /\ op[2] = "compose"
    /\ args[1] # args[2] /\ response[1] # response[2]
    /\ generation_config = InitialConfig

\* where generate_fashion_response stands with respect to its model call
C8_OneCall(c) ==
    op[c] = "compose" =>
        /\ pc[c] \in {"compose", "call"} => ngen[c] = 0
        /\ pc[c] = "call" => assistant_prompt[c] # ""
        /\ pc[c] \in {"generate", "remote"} => (ngen[c] = 1 /\ result[c] = "")
        /\ pc[c] \in {"validate", "done"} => ngen[c] = 1

\* C8: generate_fashion_response calls generate_response exactly once, after
\* the prompt is built and before the repair; no repair state and no failure
\* leads to a second call, and the call reaches its return.
C8_SingleAttempt ==
    /\ [](\A c \in Callers : C8_OneCall(c))
    /\ [][\A c \in Callers : pc[c] = "validate" => pc'[c] = "done"]_vars
    /\ (pc[1] = "compose" ~> pc[1] = "done")

C8_Witness ==
    /\ Returned(1) /\ failed[1] /\ ngen[1] = 1 /\ Len(response[1]) < 100

PromptBuilt(c) == op[c] = "compose" /\ pc[c] \notin {"idle", "compose"}

\* C9 as stated: the prompt holds the literal header of its variant followed
\* by the rendered block.
C9_PromptHasLiteralHeader ==
    \A c \in Callers :
        PromptBuilt(c) =>
            Contains(assistant_prompt[c],
                     CorrectHeader(c) \o "\n" \o RenderedBlock(c))

\* C9: the prompt is the exact-match variant exactly when similarity_score >=
\* threshold; its section is headed "ITEM DETAILS (always include this
\* section in your response):" or "SIMILAR ITEMS (always include this section
\* in your response):" and followed by the rendered block; a header the repair
\* inserts is the one of the same variant.
C9_PromptVariant ==
    \A c \in Callers :
        PromptBuilt(c) =>
            LET exact == args[c].similarity_score >= args[c].threshold
                block == RenderedBlock(c) \o "\n\n"
            IN  /\ exact <=> Contains(assistant_prompt[c],
                     "ITEM DETAILS (always include this section in your response):\n"
                     \o block)
                /\ ~exact <=> Contains(assistant_prompt[c],
                     "SIMILAR ITEMS (always include this section in your response):\n"
                     \o block)
                /\ exact <=> Contains(assistant_prompt[c],
                     "3. Include the ITEM DETAILS section at the end")
                /\ ~exact <=> Contains(assistant_prompt[c],
                     "3. Include the SIMILAR ITEMS section at the end")
                /\ (pc[c] = "done" /\ result[c] # response[c]) =>
                      /\ Contains(result[c], CorrectHeader(c) \o "\n" \o RenderedBlock(c))
                      /\ ~Contains(result[c], OtherHeader(c))

C9_Witness ==
    /\ Returned(1) /\ args[1].similarity_score = args[1].threshold
    /\ result[1] # response[1] /\ Len(response[1]) >= 100
    /\ Contains(assistant_prompt[1], "ITEM DETAILS (always")
    /\ ~Contains(assistant_prompt[1], "ITEM DETAILS:")

\* C10: every string generate_fashion_response returns is non-empty and holds
\* at least one of the two literal headers, also for an empty reply and an
\* empty all_items.
C10_HeaderAlwaysPresent ==
    \A c \in Callers :
        Returned(c) =>
            /\ result[c] # ""
            /\ \/ Contains(result[c], "ITEM DETAILS:")
               \/ Contains(result[c], "SIMILAR ITEMS:")

C10_Witness ==
    /\ Returned(1) /\ ~failed[1] /\ response[1] = ""
    /\ args[1].all_items = << >>
    /\ result[1] # ""

\* lengths of the texts the model is built on
TextLengths ==
    /\ Len("\n") = 1
    /\ Len(Prose(99)) = 99 /\ Len(Prose(7900)) = 7900
    /\ Len(ErrorResponse("timeout")) = 34
    /\ Len(ErrorResponse(NotAnImageCause)) < 100
    /\ Len(ErrorResponse(BlockedCause)) >= 100
    /\ ItemsDescription(Rows(1)) = "- Blue Oxford Shirt ($45): http://x/1"
    /\ ItemsDescription(Rows(0)) = ""

====
